---- MODULE Spec2Model ----
(***************************************************************************)
(* A model of the tree-query engine of package soup (src/soup.go).         *)
(*                                                                         *)
(* A document is a tree of html.Node records.  A Root is the library's     *)
(* Node View: {Parent *Root, Pointer *html.Node, NodeValue, Error}.        *)
(* Strings are sequences of one-character strings, so that strings.Fields  *)
(* and the whitespace test of Text are computed, not assumed.              *)
(* A pointer to a Root is a sequence of length 0 (nil) or 1 (the Root      *)
(* pointed to); a pointer to an html.Node is a node number, 0 for nil.     *)
(***************************************************************************)
EXTENDS Naturals, Sequences, FiniteSets

VARIABLES doc, debug, cur, op, res

vars == <<doc, debug, cur, op, res>>

\* ------------------------------------------------------------- bounds
\* Number of nodes of a generated document (the root element included).
MaxNodes == 5
\* The same, for the documents the search operations are run on.
MaxSearchNodes == 4
\* Longest attribute value / query value drawn for the matcher.
MaxStrLen == 3

\* ------------------------------------------------------------ strings
NilNode == 0
NilError == "nil"
EmptyString == << >>
Space == " "
sA == <<"a">>
sB == <<"b">>
sX == <<"x">>
sClass == <<"c", "l">>
sId == <<"i", "d">>

\* html.NodeType values used by the engine.
ElementNode == "ElementNode"
TextNode == "TextNode"
CommentNode == "CommentNode"

\* unicode.IsSpace, over the model's alphabet.
IsSpace(c) == c = Space

RECURSIVE FieldsFrom(_, _, _, _)
FieldsFrom(s, i, word, acc) ==
  IF i > Len(s)
  THEN IF word = << >> THEN acc ELSE Append(acc, word)
  ELSE IF IsSpace(s[i])
       THEN FieldsFrom(s, i + 1, << >>, IF word = << >> THEN acc ELSE Append(acc, word))
       ELSE FieldsFrom(s, i + 1, Append(word, s[i]), acc)

\* strings.Fields: the maximal runs of non-space characters, in order.
Fields(s) == FieldsFrom(s, 1, << >>, << >>)

\* regexp `^\s+$`: one or more characters, all of them whitespace.
MatchesOnlyWhitespace(s) == Len(s) >= 1 /\ \A i \in 1..Len(s) : IsSpace(s[i])

\* ------------------------------------------------------------ the tree
Nodes == DOMAIN doc
Type(n) == doc[n].Type
Data(n) == doc[n].Data
Attr(n) == doc[n].Attr
FirstChild(n) == doc[n].FirstChild
NextSibling(n) == doc[n].NextSibling
PrevSibling(n) == doc[n].PrevSibling

\* ------------------------------------------------------------ Root
NilRoot == << >>
MakeRoot(parent, pointer, nodeValue, error) ==
  [Parent |-> parent, Pointer |-> pointer, NodeValue |-> nodeValue, Error |-> error]

ErrorRoot(msg) == MakeRoot(NilRoot, NilNode, EmptyString, msg)

\* What a call leaves behind: the panic that ended it ("" when it returned),
\* and its return value in the field of its type.
NoPanic == ""
Returned(roots, text, attrs, bool) ==
  [panic |-> NoPanic, roots |-> roots, text |-> text, attrs |-> attrs, bool |-> bool]
Panicked(msg) ==
  [panic |-> msg, roots |-> << >>, text |-> EmptyString, attrs |-> << >>, bool |-> FALSE]
ReturnRoot(r) == Returned(<<r>>, EmptyString, << >>, FALSE)
ReturnRoots(rs) == Returned(rs, EmptyString, << >>, FALSE)
ReturnString(s) == Returned(<< >>, s, << >>, FALSE)
ReturnMap(m) == Returned(<< >>, EmptyString, m, FALSE)
ReturnBool(b) == Returned(<< >>, EmptyString, << >>, b)

NilDereference == "runtime error: invalid memory address or nil pointer dereference"
IndexOutOfRange == "runtime error: index out of range"

\* ------------------------------------------------------- attributes
RECURSIVE getKeyValueFrom(_, _, _)
getKeyValueFrom(attributes, i, keyvalues) ==
  IF i > Len(attributes) THEN keyvalues
  ELSE IF attributes[i].Key \in DOMAIN keyvalues
       THEN getKeyValueFrom(attributes, i + 1, keyvalues)
       ELSE getKeyValueFrom(attributes, i + 1,
              [k \in DOMAIN keyvalues \cup {attributes[i].Key} |->
                 IF k = attributes[i].Key THEN attributes[i].Val ELSE keyvalues[k]])

\* getKeyValue: the first occurrence of a key wins.
getKeyValue(attributes) == getKeyValueFrom(attributes, 1, << >>)

\* Attributes: nil (the empty map) for a non-element node or an element
\* without attributes; a panic for a non-element node under debug.
Attributes(r) ==
  IF Type(r.Pointer) # ElementNode
  THEN IF debug THEN Panicked("Not an ElementNode") ELSE ReturnMap(<< >>)
  ELSE IF Len(Attr(r.Pointer)) = 0 THEN ReturnMap(<< >>)
       ELSE ReturnMap(getKeyValue(Attr(r.Pointer)))

HasAttribute(r, attributeToFind) ==
  attributeToFind \in DOMAIN Attributes(r).attrs

GetAttribute(r, attributeToFind) ==
  IF HasAttribute(r, attributeToFind)
  THEN Attributes(r).attrs[attributeToFind]
  ELSE EmptyString

\* ---------------------------------------------------------- matcher
RECURSIVE compareLoop(_, _, _, _)
compareLoop(attributeParts, searchParts, positionSearch, matching) ==
  IF positionSearch > Len(searchParts) THEN matching
  ELSE LET found == \E positionAttribute \in 1..Len(attributeParts) :
                       searchParts[positionSearch] = attributeParts[positionAttribute]
       IN compareLoop(attributeParts, searchParts, positionSearch + 1,
                      matching /\ found)

\* The loose comparison with its two sides exchanged.
compareAttributeValuesSwapped(strict, valueAttribute, valueToCheck) ==
  IF strict /\ valueAttribute = valueToCheck THEN TRUE
  ELSE IF ~strict
       THEN compareLoop(Fields(valueToCheck), Fields(valueAttribute), 1, TRUE)
       ELSE FALSE

compareAttributeValues(strict, valueAttribute, valueToCheck) ==
  IF strict /\ valueAttribute = valueToCheck THEN TRUE
  ELSE IF ~strict
       THEN compareLoop(Fields(valueAttribute), Fields(valueToCheck), 1, TRUE)
       ELSE FALSE

\* The matcher skipping the attribute test whenever the attribute name is empty.
elementMatchingNameOnly(r, strict, name, nameAttribute, valueAttribute) ==
  IF Type(r.Pointer) = ElementNode /\ (EmptyString = name \/ r.NodeValue = name)
  THEN IF nameAttribute = EmptyString
       THEN TRUE
       ELSE IF HasAttribute(r, nameAttribute)
            THEN compareAttributeValues(strict, GetAttribute(r, nameAttribute), valueAttribute)
            ELSE FALSE
  ELSE FALSE

elementMatching(r, strict, name, nameAttribute, valueAttribute) ==
  IF Type(r.Pointer) = ElementNode /\ (EmptyString = name \/ r.NodeValue = name)
  THEN IF nameAttribute = EmptyString /\ valueAttribute = EmptyString
       THEN TRUE
       ELSE IF HasAttribute(r, nameAttribute)
            THEN compareAttributeValues(strict, GetAttribute(r, nameAttribute), valueAttribute)
            ELSE FALSE
  ELSE FALSE

\* The switch on len(args) of findOnce and findAll: no case for other lengths.
matchingSelf(r, args, strict) ==
  IF Len(args) = 1 THEN elementMatching(r, strict, args[1], EmptyString, EmptyString)
  ELSE IF Len(args) = 3 THEN elementMatching(r, strict, args[1], args[2], args[3])
  ELSE FALSE

\* ------------------------------------------------------- navigation
includeAll(parameters) == Len(parameters) = 1 /\ parameters[1] = TRUE

RECURSIVE childrenFrom(_, _, _, _)
childrenFrom(r, child, parameters, children) ==
  IF child = NilNode THEN children
  ELSE childrenFrom(r, NextSibling(child), parameters,
         IF includeAll(parameters) \/ Type(child) = ElementNode
         THEN Append(children, MakeRoot(<<r>>, child, Data(child), NilError))
         ELSE children)

\* Children: the direct children, each with Parent = &r.
Children(r, parameters) == childrenFrom(r, FirstChild(r.Pointer), parameters, << >>)

RECURSIVE siblingsFrom(_, _, _, _)
siblingsFrom(r, sibling, parameters, siblings) ==
  IF sibling = NilNode THEN siblings
  ELSE siblingsFrom(r, NextSibling(sibling), parameters,
         IF includeAll(parameters) \/ Type(sibling) = ElementNode
         THEN Append(siblings, MakeRoot(r.Parent, sibling, Data(sibling), NilError))
         ELSE siblings)

\* Siblings: the following siblings, each with Parent = r.Parent.
Siblings(r, parameters) == siblingsFrom(r, NextSibling(r.Pointer), parameters, << >>)

notFound(msg) == IF debug THEN Panicked(msg) ELSE ReturnRoot(ErrorRoot(msg))

\* FindNextSibling handing the Root it was called on down as the Parent.
FindNextSiblingOwnParent(r) ==
  LET nextSibling == NextSibling(r.Pointer)
  IN IF nextSibling = NilNode THEN notFound("no next sibling found")
     ELSE ReturnRoot(MakeRoot(<<r>>, nextSibling, Data(nextSibling), NilError))

FindNextSibling(r) ==
  LET nextSibling == NextSibling(r.Pointer)
  IN IF nextSibling = NilNode THEN notFound("no next sibling found")
     ELSE ReturnRoot(MakeRoot(r.Parent, nextSibling, Data(nextSibling), NilError))

FindPrevSibling(r) ==
  LET prevSibling == PrevSibling(r.Pointer)
  IN IF prevSibling = NilNode THEN notFound("no previous sibling found")
     ELSE ReturnRoot(MakeRoot(r.Parent, prevSibling, Data(prevSibling), NilError))

\* FindNextElementSibling giving up at the first sibling that is no element.
FindNextElementSiblingNoSkip(r) ==
  LET nextSibling == NextSibling(r.Pointer)
  IN IF nextSibling = NilNode \/ Type(nextSibling) # ElementNode
     THEN notFound("no next element sibling found")
     ELSE ReturnRoot(MakeRoot(r.Parent, nextSibling, Data(nextSibling), NilError))

RECURSIVE FindNextElementSibling(_)
FindNextElementSibling(r) ==
  LET nextSibling == NextSibling(r.Pointer)
  IN IF nextSibling = NilNode THEN notFound("no next element sibling found")
     ELSE IF Type(nextSibling) = ElementNode
          THEN ReturnRoot(MakeRoot(r.Parent, nextSibling, Data(nextSibling), NilError))
          ELSE FindNextElementSibling(
                 MakeRoot(r.Parent, nextSibling, Data(nextSibling), NilError))

RECURSIVE FindPrevElementSibling(_)
FindPrevElementSibling(r) ==
  LET prevSibling == PrevSibling(r.Pointer)
  IN IF prevSibling = NilNode THEN notFound("no previous element sibling found")
     ELSE IF Type(prevSibling) = ElementNode
          THEN ReturnRoot(MakeRoot(r.Parent, prevSibling, Data(prevSibling), NilError))
          ELSE FindPrevElementSibling(
                 MakeRoot(r.Parent, prevSibling, Data(prevSibling), NilError))

\* FindParent reads r.Parent.Parent without testing r.Parent: a nil Parent
\* is a nil pointer dereference, whatever the debug flag.
FindParent(r) ==
  IF r.Parent = NilRoot THEN Panicked(NilDereference)
  ELSE ReturnRoot(MakeRoot(r.Parent[1].Parent, r.Parent[1].Pointer,
                           r.Parent[1].NodeValue, NilError))

\* ----------------------------------------------------------- search
ZeroRoot == MakeRoot(NilRoot, NilNode, EmptyString, NilError)

RECURSIVE findOnce(_, _, _, _)
RECURSIVE findOnceLoop(_, _, _, _)

\* The loop of findOnce without its break: a later match replaces the first.
RECURSIVE findOnceLoopNoBreak(_, _, _, _)
findOnceLoopNoBreak(children, position, args, strict) ==
  IF position > Len(children) THEN [result |-> ZeroRoot, success |-> FALSE]
  ELSE LET temp == findOnce(children[position], args, TRUE, strict)
           rest == findOnceLoopNoBreak(children, position + 1, args, strict)
       IN IF rest.success THEN rest ELSE temp

findOnceLoop(children, position, args, strict) ==
  IF position > Len(children) THEN [result |-> ZeroRoot, success |-> FALSE]
  ELSE LET temp == findOnce(children[position], args, TRUE, strict)
       IN IF temp.success THEN temp
          ELSE findOnceLoop(children, position + 1, args, strict)

findOnce(r, args, checkSelf, strict) ==
  IF checkSelf /\ matchingSelf(r, args, strict)
  THEN [result |-> r, success |-> TRUE]
  ELSE findOnceLoop(Children(r, << >>), 1, args, strict)

RECURSIVE findAll(_, _, _, _)
RECURSIVE findAllLoop(_, _, _, _, _)
findAllLoop(children, position, args, strict, results) ==
  IF position > Len(children) THEN results
  ELSE findAllLoop(children, position + 1, args, strict,
                   results \o findAll(children[position], args, TRUE, strict))

\* findAll appending the node after the matches below it.
findAllSelfLast(r, args, checkSelf, strict) ==
  findAllLoop(Children(r, << >>), 1, args, strict, << >>)
    \o (IF checkSelf /\ matchingSelf(r, args, strict) THEN <<r>> ELSE << >>)

findAll(r, args, checkSelf, strict) ==
  findAllLoop(Children(r, << >>), 1, args, strict,
              IF checkSelf /\ matchingSelf(r, args, strict) THEN <<r>> ELSE << >>)

\* The tail shared by Find and FindStrict: the message is built from args[0]
\* on both branches of the debug test, so an empty args is an index out of
\* range whatever the flag.  The message stands for the one built from args.
findResult(found, args) ==
  IF found.success THEN ReturnRoot(found.result)
  ELSE IF Len(args) = 0 THEN Panicked(IndexOutOfRange)
       ELSE notFound("element not found")

Find(r, args) == findResult(findOnce(r, args, FALSE, FALSE), args)
FindStrict(r, args) == findResult(findOnce(r, args, FALSE, TRUE), args)
FindAll(r, args) == ReturnRoots(findAll(r, args, FALSE, FALSE))
FindAllStrict(r, args) == ReturnRoots(findAll(r, args, FALSE, TRUE))

\* ------------------------------------------------------------- text
noTextNode == IF debug THEN Panicked("No text node found") ELSE ReturnString(EmptyString)

\* The scan of Text without the whitespace test: the first text node wins.
RECURSIVE checkNodeAnyText(_)
checkNodeAnyText(k) ==
  IF k # NilNode /\ Type(k) # TextNode
  THEN IF NextSibling(k) = NilNode THEN noTextNode ELSE checkNodeAnyText(NextSibling(k))
  ELSE IF k # NilNode THEN ReturnString(Data(k)) ELSE ReturnString(EmptyString)

RECURSIVE checkNode(_)
checkNode(k) ==
  IF k # NilNode /\ Type(k) # TextNode
  THEN IF NextSibling(k) = NilNode THEN noTextNode ELSE checkNode(NextSibling(k))
  ELSE IF k # NilNode
       THEN IF MatchesOnlyWhitespace(Data(k))
            THEN IF NextSibling(k) = NilNode THEN noTextNode
                 ELSE checkNode(NextSibling(k))
            ELSE ReturnString(Data(k))
       ELSE ReturnString(EmptyString)

Text(r) == checkNode(FirstChild(r.Pointer))

RECURSIVE f(_, _)
f(n, buf) ==
  IF n = NilNode THEN buf
  ELSE LET b1 == IF Type(n) = TextNode THEN buf \o Data(n) ELSE buf
           b2 == IF Type(n) = ElementNode THEN f(FirstChild(n), b1) ELSE b1
       IN IF NextSibling(n) # NilNode THEN f(NextSibling(n), b2) ELSE b2

\* FullText starting the walk at the node instead of its first child.
FullTextFromSelf(r) == ReturnString(f(r.Pointer, EmptyString))

FullText(r) == ReturnString(f(FirstChild(r.Pointer), EmptyString))

\* ------------------------------------------------- parsed documents
\* What html.Parse hands over: nodes numbered in document order, node 1 the
\* root element HTMLParse stops at (its Parent, the document node, is written
\* 0 and never read by the engine), every parent an element.  The documents
\* drawn have no doctype or comment beside the root element, so the root has
\* no siblings.
Min(S) == CHOOSE x \in S : \A y \in S : x <= y
Max(S) == CHOOSE x \in S : \A y \in S : x >= y
MinOrNil(S) == IF S = {} THEN NilNode ELSE Min(S)
MaxOrNil(S) == IF S = {} THEN NilNode ELSE Max(S)

RECURSIVE AncestorsIn(_, _)
AncestorsIn(par, n) ==
  IF par[n] = 0 THEN {} ELSE {par[n]} \cup AncestorsIn(par, par[n])

Shapes(N) ==
  {par \in [1..N -> 0..(N - 1)] :
     /\ par[1] = 0
     /\ \A i \in 2..N : par[i] >= 1 /\ par[i] < i
     /\ \A i \in 2..N : par[i] \in {i - 1} \cup AncestorsIn(par, i - 1)}

Label(type, data, attr) == [Type |-> type, Data |-> data, Attr |-> attr]
Attribute(key, val) == [Key |-> key, Val |-> val]

MakeDoc(par, lab) ==
  [n \in DOMAIN par |->
     [Parent      |-> par[n],
      FirstChild  |-> MinOrNil({c \in DOMAIN par : par[c] = n}),
      NextSibling |-> MinOrNil({c \in DOMAIN par : c > n /\ par[c] = par[n]}),
      PrevSibling |-> MaxOrNil({c \in DOMAIN par : c < n /\ par[c] = par[n]}),
      Type        |-> lab[n].Type,
      Data        |-> lab[n].Data,
      Attr        |-> lab[n].Attr]]

Documents(N, rootLabels, labels) ==
  {MakeDoc(par, lab) : <<par, lab>> \in
     {pl \in Shapes(N) \X [1..N -> labels \cup rootLabels] :
        /\ pl[2][1] \in rootLabels
        /\ \A i \in 2..N : pl[2][i] \in labels
        /\ \A i \in 2..N : pl[2][pl[1][i]].Type = ElementNode}}

\* HTMLParse: the Root of the first element node, with no Parent.
HTMLParse(d) == MakeRoot(NilRoot, 1, d[1].Data, NilError)

ElementA == Label(ElementNode, sA, << >>)
ElementBClassAB == Label(ElementNode, sB, <<Attribute(sClass, <<"a", " ", "b">>)>>)
ElementAClassB == Label(ElementNode, sA, <<Attribute(sClass, sB)>>)
TextX == Label(TextNode, sX, << >>)
TextB == Label(TextNode, sB, << >>)
TextBlank == Label(TextNode, <<Space, Space>>, << >>)
Comment == Label(CommentNode, sX, << >>)

\* ---------------------------------------------------------- actions
Call(name, args, parameters) == [name |-> name, args |-> args, parameters |-> parameters]
NoCall == Call("none", << >>, << >>)
NoResult == ReturnRoots(<< >>)

\* The argument lists a caller passes to the search operations: none, a tag
\* (possibly the wildcard ""), or a tag, an attribute name and a value.
SearchArgs ==
  {<< >>, <<sA>>, <<sB>>, <<EmptyString>>, <<EmptyString, sClass, sB>>,
   <<sA, sClass, sB>>, <<EmptyString, sClass, <<"b", " ", "a">> >>}
Parameters == {<< >>, <<TRUE>>, <<FALSE>>}

\* A panic ends the process: nothing is called after it.
Running == res.panic = NoPanic

\* The caller holds a Root and no pending result: it is about to call.
Idle == Running /\ op.name \in {"none", "Select", "SetDebug"}

SetDebug ==
  /\ Running
  /\ debug' = ~debug
  /\ op' = Call("SetDebug", << >>, <<debug'>>)
  /\ res' = NoResult
  /\ UNCHANGED <<doc, cur>>

\* After a call has returned, the caller goes on with the Root it called on
\* or with one of the Roots the call returned; a Root that carries an Error
\* has a nil Pointer and is not used further.
Select ==
  /\ Running
  /\ ~Idle
  /\ \E r \in {cur} \cup {res.roots[i] : i \in 1..Len(res.roots)} :
       /\ r.Error = NilError
       /\ cur' = r
  /\ op' = Call("Select", << >>, << >>)
  /\ res' = NoResult
  /\ UNCHANGED <<doc, debug>>

CallFind ==
  /\ Idle
  /\ \E args \in SearchArgs :
       /\ op' = Call("Find", args, << >>)
       /\ res' = Find(cur, args)
  /\ UNCHANGED <<doc, debug, cur>>

CallFindStrict ==
  /\ Idle
  /\ \E args \in SearchArgs :
       /\ op' = Call("FindStrict", args, << >>)
       /\ res' = FindStrict(cur, args)
  /\ UNCHANGED <<doc, debug, cur>>

CallFindAll ==
  /\ Idle
  /\ \E args \in SearchArgs :
       /\ op' = Call("FindAll", args, << >>)
       /\ res' = FindAll(cur, args)
  /\ UNCHANGED <<doc, debug, cur>>

CallFindAllStrict ==
  /\ Idle
  /\ \E args \in SearchArgs :
       /\ op' = Call("FindAllStrict", args, << >>)
       /\ res' = FindAllStrict(cur, args)
  /\ UNCHANGED <<doc, debug, cur>>

CallFindNextSibling ==
  /\ Idle
  /\ op' = Call("FindNextSibling", << >>, << >>)
  /\ res' = FindNextSibling(cur)
  /\ UNCHANGED <<doc, debug, cur>>

CallFindPrevSibling ==
  /\ Idle
  /\ op' = Call("FindPrevSibling", << >>, << >>)
  /\ res' = FindPrevSibling(cur)
  /\ UNCHANGED <<doc, debug, cur>>

CallFindNextElementSibling ==
  /\ Idle
  /\ op' = Call("FindNextElementSibling", << >>, << >>)
  /\ res' = FindNextElementSibling(cur)
  /\ UNCHANGED <<doc, debug, cur>>

CallFindPrevElementSibling ==
  /\ Idle
  /\ op' = Call("FindPrevElementSibling", << >>, << >>)
  /\ res' = FindPrevElementSibling(cur)
  /\ UNCHANGED <<doc, debug, cur>>

CallChildren ==
  /\ Idle
  /\ \E parameters \in Parameters :
       /\ op' = Call("Children", << >>, parameters)
       /\ res' = ReturnRoots(Children(cur, parameters))
  /\ UNCHANGED <<doc, debug, cur>>

CallSiblings ==
  /\ Idle
  /\ \E parameters \in Parameters :
       /\ op' = Call("Siblings", << >>, parameters)
       /\ res' = ReturnRoots(Siblings(cur, parameters))
  /\ UNCHANGED <<doc, debug, cur>>

CallFindParent ==
  /\ Idle
  /\ op' = Call("FindParent", << >>, << >>)
  /\ res' = FindParent(cur)
  /\ UNCHANGED <<doc, debug, cur>>

CallAttributes ==
  /\ Idle
  /\ op' = Call("Attributes", << >>, << >>)
  /\ res' = Attributes(cur)
  /\ UNCHANGED <<doc, debug, cur>>

CallText ==
  /\ Idle
  /\ op' = Call("Text", << >>, << >>)
  /\ res' = Text(cur)
  /\ UNCHANGED <<doc, debug, cur>>

CallFullText ==
  /\ Idle
  /\ op' = Call("FullText", << >>, << >>)
  /\ res' = FullText(cur)
  /\ UNCHANGED <<doc, debug, cur>>

\* ------------------------------------------------- the query engine
\* Every operation, over documents of plain elements, text and comments.
Started(documents) ==
  /\ doc \in documents
  /\ debug = FALSE
  /\ cur = HTMLParse(doc)
  /\ op = NoCall
  /\ res = NoResult

Init == Started(Documents(MaxNodes, {ElementA}, {ElementA, TextX, Comment}))

Next ==
  \/ SetDebug
  \/ Select
  \/ CallFind
  \/ CallFindStrict
  \/ CallFindAll
  \/ CallFindAllStrict
  \/ CallFindNextSibling
  \/ CallFindPrevSibling
  \/ CallFindNextElementSibling
  \/ CallFindPrevElementSibling
  \/ CallChildren
  \/ CallSiblings
  \/ CallFindParent
  \/ CallAttributes
  \/ CallText
  \/ CallFullText

Spec == Init /\ [][Next]_vars

\* The search operations, over documents whose elements differ in tag and in
\* class attribute.
InitSearch ==
  Started(Documents(MaxSearchNodes, {ElementA}, {ElementA, ElementBClassAB, ElementAClassB, TextX}))

NextSearch ==
  \/ SetDebug
  \/ Select
  \/ CallFind
  \/ CallFindStrict
  \/ CallFindAll
  \/ CallFindAllStrict

SpecSearch == InitSearch /\ [][NextSearch]_vars

\* Text extraction, over documents with blank and non-blank text nodes.
InitText ==
  Started(Documents(MaxNodes, {ElementA}, {ElementA, TextX, TextB, TextBlank, Comment}))

NextText ==
  \/ SetDebug
  \/ Select
  \/ CallChildren
  \/ CallText
  \/ CallFullText

SpecText == InitText /\ [][NextText]_vars

\* The matcher as a function of its arguments: one node below the root, its
\* kind, tag and attribute list drawn freely, and every query up to MaxStrLen.
Alphabet == {"a", "b", Space}
Strings(n) == UNION {[1..k -> Alphabet] : k \in 0..n}

MatchAttributes ==
  {<< >>, <<Attribute(sId, sB)>>}
    \cup {<<Attribute(sClass, v)>> : v \in Strings(MaxStrLen)}
    \cup {<<Attribute(sClass, v), Attribute(sClass, sB)>> : v \in Strings(1)}

MatchLabels ==
  {Label(ElementNode, t, a) : t \in {sA, sB}, a \in MatchAttributes}
    \cup {Label(TextNode, sA, << >>), Label(CommentNode, sA, << >>)}

CallElementMatching ==
  /\ Idle
  /\ \E strict \in BOOLEAN, name \in {EmptyString, sA},
        nameAttribute \in {EmptyString, sClass}, valueAttribute \in Strings(MaxStrLen) :
       /\ op' = Call("elementMatching", <<name, nameAttribute, valueAttribute>>, <<strict>>)
       /\ res' = ReturnBool(elementMatching(cur, strict, name, nameAttribute, valueAttribute))
  /\ UNCHANGED <<doc, debug, cur>>

InitMatch == Started(Documents(2, {ElementA}, MatchLabels))

NextMatch ==
  \/ Select
  \/ CallChildren
  \/ CallElementMatching

SpecMatch == InitMatch /\ [][NextMatch]_vars

\* ======================================================= properties
\* The tree as the parser built it, read without the engine's traversal:
\* nodes are numbered in document (depth-first pre-order) order.
TreeParent(n) == doc[n].Parent

RECURSIVE TreeAncestors(_)
TreeAncestors(n) ==
  IF TreeParent(n) = 0 THEN {} ELSE {TreeParent(n)} \cup TreeAncestors(TreeParent(n))

ProperDescendants(n) == {d \in Nodes : n \in TreeAncestors(d)}
FollowingSiblings(n) == {s \in Nodes : s > n /\ TreeParent(s) = TreeParent(n)}
PrecedingSiblings(n) == {s \in Nodes : s < n /\ TreeParent(s) = TreeParent(n)}
DirectChildren(n) == {c \in Nodes : TreeParent(c) = n}

ViewOf(n) == MakeRoot(NilRoot, n, Data(n), NilError)
StrictCall == op.name \in {"FindStrict", "FindAllStrict"}
Matching(n) == {d \in ProperDescendants(n) : matchingSelf(ViewOf(d), op.args, StrictCall)}
TagOrTriple == Len(op.args) \in {1, 3}

Pointers(roots) == [i \in 1..Len(roots) |-> roots[i].Pointer]
Increasing(seq) == \A i, j \in 1..Len(seq) : i < j => seq[i] < seq[j]
Range(seq) == {seq[i] : i \in 1..Len(seq)}

\* A failure of the call: returned as a Root carrying an Error and no node
\* with the debug flag off, a panic with that message with the flag on.
FailedWith(msg) ==
  IF debug THEN res.panic = msg
  ELSE res.panic = NoPanic /\ res.roots = <<ErrorRoot(msg)>>

FoundRoot == res.panic = NoPanic /\ Len(res.roots) = 1 /\ res.roots[1].Error = NilError

\* C1: Find/FindStrict with one or three arguments returns the first proper
\* descendant of r in document order that satisfies the matcher, which is the
\* first element of findAll for the same criteria and never r itself, and
\* returns the not-found failure exactly when no proper descendant matches.
C1_FindReturnsFirstMatch ==
  (op.name \in {"Find", "FindStrict"} /\ TagOrTriple) =>
    IF Matching(cur.Pointer) = {}
    THEN FailedWith("element not found")
    ELSE /\ FoundRoot
         /\ res.roots[1].Pointer = Min(Matching(cur.Pointer))
         /\ res.roots[1].Pointer # cur.Pointer
         /\ res.roots[1] = Head(findAll(cur, op.args, FALSE, StrictCall))

\* C1 witness: the match is below a child of r, a later child of r matches
\* too, and r itself satisfies the matcher.
C1_Witness ==
  /\ op.name \in {"Find", "FindStrict"} /\ TagOrTriple
  /\ FoundRoot
  /\ TreeParent(res.roots[1].Pointer) # cur.Pointer
  /\ \E d \in Matching(cur.Pointer) :
       d > res.roots[1].Pointer /\ TreeParent(d) = cur.Pointer
  /\ matchingSelf(ViewOf(cur.Pointer), op.args, StrictCall)

\* C2: FindAll/FindAllStrict returns exactly the proper descendants of r that
\* satisfy the matcher, each once, in document order, as many as a scan of the
\* subtree counts, never r itself; with no match it returns the empty
\* sequence and does not fail.
C2_FindAllReturnsAllMatches ==
  (op.name \in {"FindAll", "FindAllStrict"} /\ TagOrTriple) =>
    /\ res.panic = NoPanic
    /\ Range(Pointers(res.roots)) = Matching(cur.Pointer)
    /\ Increasing(Pointers(res.roots))
    /\ Len(res.roots) = Cardinality(Matching(cur.Pointer))
    /\ \A i \in 1..Len(res.roots) : res.roots[i].Error = NilError
    /\ cur.Pointer \notin Range(Pointers(res.roots))

\* C2 witness: three matches at two depths, one of them below another match,
\* under an r that satisfies the matcher itself.
C2_Witness ==
  /\ op.name \in {"FindAll", "FindAllStrict"} /\ TagOrTriple
  /\ Len(res.roots) >= 3
  /\ \E i, j \in 1..Len(res.roots) :
       TreeParent(res.roots[j].Pointer) = res.roots[i].Pointer
  /\ \E i \in 1..Len(res.roots) : TreeParent(res.roots[i].Pointer) = cur.Pointer
  /\ matchingSelf(ViewOf(cur.Pointer), op.args, StrictCall)

\* C2 (no match): the empty sequence is returned, not a failure.
C2_WitnessEmpty ==
  /\ op.name \in {"FindAll", "FindAllStrict"} /\ TagOrTriple
  /\ Matching(cur.Pointer) = {}
  /\ ProperDescendants(cur.Pointer) # {}

\* ---- the matcher
MatcherCall == op.name = "elementMatching"
QueryStrict == op.parameters[1]
QueryName == op.args[1]
QueryAttribute == op.args[2]
QueryValue == op.args[3]

\* The whitespace-separated words of s, read off s without splitting it.
WordsOf(s) ==
  {SubSeq(s, i, j) : <<i, j>> \in
     {ij \in (1..Len(s)) \X (1..Len(s)) :
        /\ ij[1] <= ij[2]
        /\ \A k \in ij[1]..ij[2] : s[k] # Space
        /\ (ij[1] = 1 \/ s[ij[1] - 1] = Space)
        /\ (ij[2] = Len(s) \/ s[ij[2] + 1] = Space)}}

Carries(n, key) == \E i \in 1..Len(Attr(n)) : Attr(n)[i].Key = key
ValueOf(n, key) == Attr(n)[Min({i \in 1..Len(Attr(n)) : Attr(n)[i].Key = key})].Val
TagTest(n) == Type(n) = ElementNode /\ (QueryName = EmptyString \/ Data(n) = QueryName)
ValueTest(v, e) ==
  IF QueryStrict THEN v = e ELSE WordsOf(e) \subseteq WordsOf(v)

\* C3: on an element that passes the tag test and carries the named
\* attribute with value V, the matcher succeeds in strict mode iff V = E, and
\* in loose mode iff every whitespace-separated word of E is a word of V
\* (so an E without words always matches).
C3_ValueComparison ==
  (/\ MatcherCall
   /\ TagTest(cur.Pointer)
   /\ QueryAttribute # EmptyString
   /\ Carries(cur.Pointer, QueryAttribute)) =>
    res.bool = ValueTest(ValueOf(cur.Pointer, QueryAttribute), QueryValue)

\* C3 witness: a loose match of two words given in the other order, which
\* the strict comparison of the same strings rejects.
C3_Witness ==
  /\ MatcherCall /\ ~QueryStrict /\ res.bool
  /\ TagTest(cur.Pointer) /\ Carries(cur.Pointer, QueryAttribute)
  /\ QueryValue = <<"b", " ", "a">>
  /\ ValueOf(cur.Pointer, QueryAttribute) = <<"a", " ", "b">>

\* C4 as claimed: the matcher is true only on elements passing the tag test,
\* and with the empty attribute name the tag test alone decides, whatever the
\* attribute value; with an attribute name the node must carry it and pass
\* the value comparison.
C4_AsClaimed ==
  MatcherCall =>
    /\ res.bool => TagTest(cur.Pointer)
    /\ QueryAttribute = EmptyString => res.bool = TagTest(cur.Pointer)
    /\ QueryAttribute # EmptyString =>
         res.bool = (/\ TagTest(cur.Pointer)
                     /\ Carries(cur.Pointer, QueryAttribute)
                     /\ ValueTest(ValueOf(cur.Pointer, QueryAttribute), QueryValue))

\* C4 amended: the matcher is true only on elements passing the tag test; the
\* tag test alone decides when attribute name and attribute value are both
\* empty; in every other case the node must carry an attribute of the given
\* name (none has the empty name) and pass the value comparison.
C4_TagTestAloneWhenBothEmpty ==
  MatcherCall =>
    /\ res.bool => TagTest(cur.Pointer)
    /\ (QueryAttribute = EmptyString /\ QueryValue = EmptyString) =>
         res.bool = TagTest(cur.Pointer)
    /\ ~(QueryAttribute = EmptyString /\ QueryValue = EmptyString) =>
         res.bool = (/\ TagTest(cur.Pointer)
                     /\ Carries(cur.Pointer, QueryAttribute)
                     /\ ValueTest(ValueOf(cur.Pointer, QueryAttribute), QueryValue))

\* C4 witness: an element passing the tag test, queried with the empty
\* attribute name and a non-empty value, does not match.
C4_Witness ==
  /\ MatcherCall /\ TagTest(cur.Pointer)
  /\ QueryAttribute = EmptyString /\ QueryValue # EmptyString
  /\ Attr(cur.Pointer) # << >>
  /\ ~res.bool

\* ---- failures and the debug flag
ReturnedFailure ==
  /\ res.panic = NoPanic
  /\ Len(res.roots) = 1
  /\ res.roots[1].Error # NilError

\* C5: with the debug flag off no query operation aborts; in particular a
\* Find/FindStrict that matches nothing returns a Root carrying an Error for
\* zero, one or three arguments, and FindParent on a Root without Parent
\* returns a failure.
C5_NoAbortWhenDebugOff ==
  ~debug =>
    /\ res.panic = NoPanic
    /\ (op.name \in {"Find", "FindStrict"} /\ Len(op.args) \in {0, 1, 3}
          /\ Matching(cur.Pointer) = {}) => ReturnedFailure
    /\ (op.name = "FindParent" /\ cur.Parent = NilRoot) => ReturnedFailure

Blank(s) == \A i \in 1..Len(s) : s[i] = Space
UsableText(n) == {c \in DirectChildren(n) : Type(c) = TextNode /\ ~Blank(Data(c))}

\* The calls the specification lists as failing.
FailingCall ==
  \/ op.name \in {"Find", "FindStrict"} /\ Matching(cur.Pointer) = {}
  \/ op.name = "FindNextSibling" /\ FollowingSiblings(cur.Pointer) = {}
  \/ op.name = "FindPrevSibling" /\ PrecedingSiblings(cur.Pointer) = {}
  \/ /\ op.name = "FindNextElementSibling"
     /\ \A n \in FollowingSiblings(cur.Pointer) : Type(n) # ElementNode
  \/ /\ op.name = "FindPrevElementSibling"
     /\ \A n \in PrecedingSiblings(cur.Pointer) : Type(n) # ElementNode
  \/ op.name = "Attributes" /\ Type(cur.Pointer) # ElementNode
  \/ op.name = "Text" /\ UsableText(cur.Pointer) = {}

\* C6: with the debug flag on every failing call aborts instead of
\* returning, shallow Text on a node without children included.
C6_EveryFailureAbortsWhenDebugOn ==
  (debug /\ FailingCall) => res.panic # NoPanic

\* ---- element siblings
\* C7: FindNextElementSibling (FindPrevElementSibling) returns the nearest
\* following (preceding) sibling that is an element, with the Parent of the
\* Root it was called on, and fails iff there is no such sibling.
C7_NearestElementSibling ==
  /\ op.name = "FindNextElementSibling" =>
       LET elements == {n \in FollowingSiblings(cur.Pointer) : Type(n) = ElementNode}
       IN IF elements = {} THEN FailedWith("no next element sibling found")
          ELSE res = ReturnRoot(MakeRoot(cur.Parent, Min(elements),
                                         Data(Min(elements)), NilError))
  /\ op.name = "FindPrevElementSibling" =>
       LET elements == {n \in PrecedingSiblings(cur.Pointer) : Type(n) = ElementNode}
       IN IF elements = {} THEN FailedWith("no previous element sibling found")
          ELSE res = ReturnRoot(MakeRoot(cur.Parent, Max(elements),
                                         Data(Max(elements)), NilError))

\* C7 witness: the element returned lies behind a text and a comment sibling.
C7_Witness ==
  /\ op.name = "FindNextElementSibling"
  /\ FoundRoot
  /\ cur.Parent # NilRoot
  /\ \E t, c \in FollowingSiblings(cur.Pointer) :
       /\ t < res.roots[1].Pointer /\ Type(t) = TextNode
       /\ c < res.roots[1].Pointer /\ Type(c) = CommentNode

\* ---- text
\* C8: Text returns the content of the first direct child that is a text
\* node with non-blank content, never text from inside a nested element, and
\* fails (the empty string, or the panic under debug) when no direct child
\* is such a text node.
C8_FirstNonBlankDirectText ==
  op.name = "Text" =>
    IF UsableText(cur.Pointer) # {}
    THEN res = ReturnString(Data(Min(UsableText(cur.Pointer))))
    ELSE \/ res = ReturnString(EmptyString)
         \/ debug /\ res.panic = "No text node found"

\* C8 witness: the text returned comes after a blank text and an element
\* that holds text of its own.
C8_Witness ==
  /\ op.name = "Text" /\ res.panic = NoPanic /\ res.text # EmptyString
  /\ \E b, e \in DirectChildren(cur.Pointer) :
       /\ b < Min(UsableText(cur.Pointer)) /\ Type(b) = TextNode /\ Blank(Data(b))
       /\ e < Min(UsableText(cur.Pointer)) /\ Type(e) = ElementNode
       /\ \E t \in DirectChildren(e) : Type(t) = TextNode /\ ~Blank(Data(t))

\* C8 witness of the failing case: <p>  <b>x</b></p>.
C8_WitnessNoDirectText ==
  /\ op.name = "Text" /\ UsableText(cur.Pointer) = {}
  /\ \E b, e \in DirectChildren(cur.Pointer) :
       /\ Type(b) = TextNode /\ Blank(Data(b))
       /\ Type(e) = ElementNode /\ UsableText(e) # {}

RECURSIVE ConcatInOrder(_)
ConcatInOrder(S) ==
  IF S = {} THEN EmptyString ELSE Data(Min(S)) \o ConcatInOrder(S \ {Min(S)})

TextBelow(n) == {d \in ProperDescendants(n) : Type(d) = TextNode}

\* C9: FullText returns the contents of the text nodes below n, concatenated
\* in document order without separators, nothing from outside the subtree,
\* the empty string for a node without children, and never fails.
C9_FullTextIsSubtreeText ==
  op.name = "FullText" => res = ReturnString(ConcatInOrder(TextBelow(cur.Pointer)))

\* C9 witness: two different texts below n, and text in a following sibling
\* of n that is not part of the result.
C9_Witness ==
  /\ op.name = "FullText"
  /\ \E t, u \in TextBelow(cur.Pointer) : t < u /\ Data(t) # Data(u)
  /\ \E n \in FollowingSiblings(cur.Pointer) : Type(n) = TextNode /\ ~Blank(Data(n))
  /\ Len(res.text) = 2

\* C9 witness of the nesting: text of a nested element comes before the text
\* that follows the element.
C9_WitnessNested ==
  /\ op.name = "FullText"
  /\ \E t, u \in TextBelow(cur.Pointer) :
       t < u /\ TreeParent(t) # cur.Pointer /\ TreeParent(u) = cur.Pointer
         /\ Data(t) # Data(u)

\* ---- parent links
RECURSIVE WellLinked(_)
WellLinked(r) ==
  \/ r.Parent = NilRoot
  \/ /\ r.Parent[1].Error = NilError
     /\ r.Parent[1].Pointer = TreeParent(r.Pointer)
     /\ r.Parent[1].NodeValue = Data(TreeParent(r.Pointer))
     /\ WellLinked(r.Parent[1])

\* C10: every Root held or returned without Error that has a Parent has as
\* Parent a Root of its node's parent in the tree, and so on up the chain;
\* FindParent returns a Root of the parent node of the Root it is called on.
C10_ParentIsTreeParent ==
  /\ WellLinked(cur)
  /\ res.panic = NoPanic =>
       \A i \in 1..Len(res.roots) :
         res.roots[i].Error = NilError => WellLinked(res.roots[i])
  /\ (op.name = "FindParent" /\ res.panic = NoPanic) =>
       /\ FoundRoot
       /\ res.roots[1].Pointer = TreeParent(cur.Pointer)

\* C10 witness: FindParent on a Root two levels below the root, whose node
\* has a preceding sibling, returns a Root that has a Parent itself.
C10_Witness ==
  /\ op.name = "FindParent" /\ FoundRoot
  /\ res.roots[1].Parent # NilRoot
  /\ res.roots[1].Pointer = TreeParent(cur.Pointer)
  /\ PrecedingSiblings(cur.Pointer) # {}

====
